---- MODULE Spec2Model ----
(***************************************************************************)
(* Model of the connection / event-dispatch core of the Decentra bot SDK   *)
(* (sdk/client.py, class DecentraBot): handler registration, the           *)
(* supervisor loop _ws_loop, the handshake _connect_ws, the dispatcher     *)
(* _dispatch_event, the request session and stop().                        *)
(*                                                                         *)
(* The client runs on one asyncio event loop: a step of the model is the   *)
(* code that runs between two suspension points (await of a network        *)
(* operation, of a sleep, or of a user handler).  stop() is a second task  *)
(* on the same loop and interleaves with the supervisor at those points.   *)
(***************************************************************************)
EXTENDS Integers, Sequences, FiniteSets, TLC

\* ---------------------------------------------------------------- bounds
MaxRegs == 2        \* registration calls made before start()
MaxAttempts == 3    \* connection attempts of one run
MaxFrames == 2      \* frames delivered by the server in one run
MaxStops == 2       \* calls of stop()

\* ---------------------------------------------------------- value spaces
Kinds == {"message_create", "slash_command"}   \* kinds handlers are registered for
EventKinds == Kinds \cup {"member_join"}        \* kinds the server sends
Names == {"ping"}                              \* command names registered
Messages == {"bad token", "expired"}

\* A registered callable is identified by its rank among the registrations
\* made for the same event kind, or under the same command name: 1 for the
\* first, 2 for the second...; 0 is "no handler" (dict.get -> None).
NoHandler == 0

\* The `data` object of an envelope, reduced to the keys the dispatcher
\* reads.  Every one of them is read with .get(key, ''), so "" also stands
\* for a key that is absent.
Payload(c, u, sid, cid) ==
    [command |-> c, user |-> u, server_id |-> sid, channel_id |-> cid]

NoPayload == Payload("", "", "", "")

\* A decoded frame: the envelope keys type, event, server_id, channel_id,
\* and data.
Envelope(t, e, sid, cid, d) ==
    [json |-> TRUE, type |-> t, event |-> e, server_id |-> sid,
     channel_id |-> cid, data |-> d]

\* Frames the server can deliver on the stream (raw text, before decoding).
\* json = FALSE is text that json.loads rejects.
Frames ==
    {[json |-> FALSE, type |-> "", event |-> "", server_id |-> "",
      channel_id |-> "", data |-> NoPayload]}
    \cup {Envelope("bot_event", k, "s1", "c1", NoPayload) :
             k \in EventKinds \ {"slash_command"}}
    \* a payload that carries ids of its own
    \cup {Envelope("bot_event", "message_create", "s1", "c1",
                   Payload("", "bob", "s9", "c9"))}
    \* the same under an envelope that has no ids
    \cup {Envelope("bot_event", "message_create", "", "",
                   Payload("", "bob", "s9", "c9"))}
    \cup {Envelope("bot_event", "slash_command", "s1", "c1",
                   Payload(c, "alice", "", "")) :
             c \in Names \cup {"unknown"}}   \* "unknown" is never registered
    \cup {Envelope("bot_event", "slash_command", "s2", "c2",
                   Payload("ping", "bob", "s9", "c9"))}
    \cup {Envelope(t, "", "", "", NoPayload) : t \in {"pong", "typing"}}

\* Frames the server can send in answer to the bot_auth frame.
AuthResponses ==
    {[json |-> FALSE, type |-> "", message |-> ""],
     [json |-> TRUE, type |-> "bot_auth_success", message |-> ""],
     [json |-> TRUE, type |-> "auth_pending", message |-> ""]}
    \cup {[json |-> TRUE, type |-> "error", message |-> m] : m \in Messages}

VARIABLES
    running,            \* self._running
    ws,                 \* self._ws: 0 (None) or the index of a transport
    transports,         \* every transport ever opened: "open" | "closed"
    session,            \* self._session: "none" | "open" | "closed"
    sessions,           \* number of request sessions created so far
    used,               \* an action-client call has obtained the session since
                        \* the session was last closed (or since construction)
    eventHandlers,      \* self._event_handlers: kind -> sequence of handlers
    slashHandlers,      \* self._slash_handlers: name -> handler (a dict)
    slashDefinitions,   \* self._slash_definitions: sequence of definitions
    regs,               \* number of registration calls made
    pc,                 \* where the task running start()/_ws_loop is suspended
    hidx,               \* position in the handler list of the handler in flight
    stopPc,             \* where the latest call of stop() is: "none" | "closing_ws" |
                        \* "returned" | "raised"
    stops,              \* number of stop() calls begun
    \* ---- observation of the run (history)
    attempts,           \* calls of _connect_ws begun
    fails,              \* connection attempts that have ended
    att,                \* what happened on the current (latest) attempt
    last,               \* the latest resumption of the supervisor task
    lastFail,           \* until the next transport open completes: how the
                        \* latest ended attempt ended, and the message logged
    waited,             \* until the next transport open completes: the time
                        \* slept since the latest attempt ended
    frames,             \* frames read from the stream since start()
    cur                 \* the dispatch of the latest frame read

vars == <<running, ws, transports, session, sessions, used, eventHandlers, slashHandlers,
          slashDefinitions, regs, pc, hidx, stopPc, stops, attempts, fails,
          att, last, lastFail, waited, frames, cur>>

regVars == <<eventHandlers, slashHandlers, slashDefinitions, regs>>
histVars == <<attempts, fails, att, last, lastFail, waited>>

\* ------------------------------------------------------------ records
NoFrame == Envelope("none", "", "", "", NoPayload)

\* The server_id and channel_id an object carries.
Ids(x) == [server_id |-> x.server_id, channel_id |-> x.channel_id]

NoIds == [server_id |-> "", channel_id |-> ""]

\* The fields of a SlashCommandContext that come from the event.
NoContext == [command_name |-> "", user |-> "", server_id |-> "", channel_id |-> ""]

\* cur: the latest frame read on the current attempt, the handlers invoked
\* for it (in order), the positions of
\* the handlers that raised, the positions for which "Handler error" was
\* logged, whether _dispatch_event has returned or raised, whether an
\* exception left _dispatch_event, whether the frame loop logged "Received
\* non-JSON message" for it, (after) how the frame read before it on the
\* same connection fared: "" | "malformed" | "slash_raised", (errlog) the
\* error records logged for it, each with its format and the set of event or
\* command names among its arguments, (ctx) the context handed to the
\* slash-command handler, (finished) the number of handler calls that have
\* returned or raised, (afterStop) whether the frame was handed to
\* _dispatch_event after a call of stop() had returned, (inCall) whether
\* the handler in flight is suspended in an action-client call, (via) the
\* registry the invoked handlers were taken from: "command" for
\* _slash_handlers, "event" for _event_handlers, and (handed) the
\* server_id and channel_id of the argument the handlers are called with.
NoDispatch ==
    [frame |-> NoFrame, invoked |-> <<>>, raised |-> <<>>, logged |-> <<>>,
     done |-> TRUE, escaped |-> FALSE, decodeWarned |-> FALSE, after |-> "",
     errlog |-> <<>>, ctx |-> NoContext, finished |-> 0, afterStop |-> FALSE,
     handed |-> NoIds, inCall |-> FALSE, via |-> ""]

\* att: the command-registration requests the attempt issued, whether it
\* entered the frame loop, the frames it read, and (sent) the `commands` list
\* of the registration request it issued.
NewAttempt == [regIssued |-> 0, streamed |-> FALSE, frames |-> 0, sent |-> <<>>]

\* last: what the supervisor task was resumed with: ev names it ("auth" with
\* arg the type of the response ("malformed" when it is not JSON) and msg
\* its message, "registered" with arg the outcome of the request, "frame"
\* with arg "malformed" for a frame that is not JSON, or "step" for anything
\* else).
Step == [ev |-> "step", arg |-> "", msg |-> ""]

NoFail == [exc |-> "none", msg |-> ""]

Init ==
    /\ running = FALSE
    /\ ws = 0
    /\ transports = <<>>
    /\ session = "none"
    /\ sessions = 0
    /\ used = FALSE
    /\ eventHandlers = [k \in Kinds |-> <<>>]
    /\ slashHandlers = <<>>
    /\ slashDefinitions = <<>>
    /\ regs = 0
    /\ pc = "idle"
    /\ hidx = 0
    /\ stopPc = "none"
    /\ stops = 0
    /\ attempts = 0
    /\ fails = 0
    /\ att = NewAttempt
    /\ last = Step
    /\ lastFail = NoFail
    /\ waited = 0
    /\ frames = 0
    /\ cur = NoDispatch

\* ------------------------------------------------- handler registration
\* add_event_handler: setdefault(event, []).append(handler)
AddEventHandler(k) ==
    /\ pc = "idle"
    /\ regs < MaxRegs
    /\ regs' = regs + 1
    /\ eventHandlers' = [eventHandlers EXCEPT ![k] = Append(@, Len(@) + 1)]
    /\ UNCHANGED <<running, ws, transports, session, sessions, used, slashHandlers, slashDefinitions,
                   pc, hidx, stopPc, stops, histVars, frames, cur>>

\* The positions in the definition list of the registrations of name n.
RegistrationsOf(n) == {i \in DOMAIN slashDefinitions : slashDefinitions[i].name = n}

\* StoreHandler written d.setdefault(n, h): the first handler is kept.
StoreHandlerKeepFirst(d, n, h) ==
    [x \in DOMAIN d \cup {n} |-> IF x \in DOMAIN d THEN d[x] ELSE h]

\* Line 115 (and line 90): self._slash_handlers[name] = func on the dict d.
StoreHandler(d, n, h) ==
    [x \in DOMAIN d \cup {n} |-> IF x = n THEN h ELSE d[x]]

\* slash_command(name, description)(func): the handler replaces the one
\* stored under the name; the definition is appended to the list.
SlashCommand(n) ==
    /\ pc = "idle"
    /\ regs < MaxRegs
    /\ regs' = regs + 1
    /\ slashHandlers' = StoreHandler(slashHandlers, n, Cardinality(RegistrationsOf(n)) + 1)
    /\ slashDefinitions' = Append(slashDefinitions,
            [name |-> n, description |-> Cardinality(RegistrationsOf(n)) + 1])
    /\ UNCHANGED <<running, ws, transports, session, sessions, used, eventHandlers,
                   pc, hidx, stopPc, stops, histVars, frames, cur>>

\* ------------------------------------------------------ request session
\* NeedsNewSession without the test of `closed`.
NeedsNewSessionOnlyWhenNone(s) == s = "none"

\* Line 137: `self._session is None or self._session.closed`.
NeedsNewSession(s) == s = "none" \/ s = "closed"

\* _ensure_session: a session is created when there is none or it is closed.
EnsureSession(s) == IF NeedsNewSession(s) THEN "open" ELSE s

\* The number of sessions created once _ensure_session has run.
SessionsAfterEnsure(s, n) == IF NeedsNewSession(s) THEN n + 1 ELSE n

\* ---------------------------------------------------- supervisor: _ws_loop
\* Ways a connection attempt ends.  "EndOfStream" is the frame loop ending
\* without an exception (the iteration stops silently on a close with code
\* 1000); the others are the exception that leaves the try block.
Endings == {"EndOfStream", "ConnectionClosedOK", "ConnectionClosedError",
            "ConnectionError", "ConnectionRefusedError", "InvalidHandshake",
            "JSONDecodeError", "ClientError"}

\* The closes the transport reports as clean.
CleanEndings == {"EndOfStream", "ConnectionClosedOK"}

\* ExceptClause with the ConnectionError clause tried before the
\* ConnectionClosed one and ConnectionClosed taken for a subclass of it.
ExceptClauseClosedAsError(e) ==
    CASE e = "EndOfStream" -> "no_exception"
      [] e \in {"ConnectionClosedOK", "ConnectionClosedError",
                "ConnectionError", "ConnectionRefusedError"} -> "ConnectionError"
      [] OTHER -> "Exception"

\* ExceptClause without the final `except Exception` clause.
ExceptClauseNoCatchAll(e) ==
    CASE e = "EndOfStream" -> "no_exception"
      [] e \in {"ConnectionClosedOK", "ConnectionClosedError"} -> "ConnectionClosed"
      [] e \in {"ConnectionError", "ConnectionRefusedError"} -> "ConnectionError"
      [] OTHER -> "uncaught"

\* ExceptClause with every exception that is not a ConnectionClosed handled
\* by the ConnectionError clause.
ExceptClauseAllAsError(e) ==
    CASE e = "EndOfStream" -> "no_exception"
      [] e \in {"ConnectionClosedOK", "ConnectionClosedError"} -> "ConnectionClosed"
      [] OTHER -> "ConnectionError"

\* The except clause of _ws_loop that handles an ending, tried in source
\* order.  ConnectionRefusedError is a subclass of the builtin
\* ConnectionError; the websockets ConnectionClosed classes are not.
ExceptClause(e) ==
    CASE e = "EndOfStream" -> "no_exception"
      [] e \in {"ConnectionClosedOK", "ConnectionClosedError"} -> "ConnectionClosed"
      [] e \in {"ConnectionError", "ConnectionRefusedError"} -> "ConnectionError"
      [] OTHER -> "Exception"

\* The sleep inside the ConnectionError clause, and the one after the try.
ConnectionErrorBackoff == 10
GeneralBackoff == 5

\* The ConnectionError clause without its `continue`.
AfterConnectionErrorBackoffFallsThrough == "fall_through"

\* What follows the sleep of the ConnectionError clause: `continue`.
AfterConnectionErrorBackoff == "continue"

\* The loop written `while True:`.
WhileTrue(r) == TRUE

\* The condition of `while self._running:`, r being the flag.
WhileRunning(r) == r

\* The loop condition is evaluated; when it holds _connect_ws is called and
\* runs up to the await of websockets.connect.  a is the record of the
\* previous attempt.
LoopHead(r, a) ==
    IF WhileRunning(r)
    THEN /\ attempts < MaxAttempts
         /\ pc' = "opening"
         /\ attempts' = attempts + 1
         /\ att' = NewAttempt
    ELSE /\ pc' = "done"
         /\ attempts' = attempts
         /\ att' = a

\* The attempt ends with ending e (logged with message m): the matching
\* except clause runs, then `if self._running: await asyncio.sleep(5)`.
\* When the flag is clear the sleep is skipped and the loop condition is
\* evaluated at once.  a is the record of the attempt that ends.
Fail(e, m, a) ==
    /\ lastFail' = [exc |-> e, msg |-> m]
    /\ fails' = fails + 1
    /\ waited' = 0
    /\ cur' = NoDispatch
    /\ CASE ExceptClause(e) = "ConnectionError" ->
               pc' = "sleep10" /\ attempts' = attempts /\ att' = a
         [] ExceptClause(e) = "uncaught" ->
               pc' = "done" /\ attempts' = attempts /\ att' = a
         [] OTHER ->
               IF running
               THEN pc' = "sleep5" /\ attempts' = attempts /\ att' = a
               ELSE LoopHead(running, a)

\* start(): sets the flag and enters the loop.
Start ==
    /\ pc = "idle"
    /\ running' = TRUE
    /\ LoopHead(TRUE, att)
    /\ last' = Step
    /\ UNCHANGED <<ws, transports, session, sessions, used, regVars, hidx, stopPc, stops,
                   fails, lastFail, waited, frames, cur>>

\* asyncio.sleep(5) at the end of the loop body returns.
Sleep5Done ==
    /\ pc = "sleep5"
    /\ waited' = waited + GeneralBackoff
    /\ LoopHead(running, att)
    /\ last' = Step
    /\ UNCHANGED <<running, ws, transports, session, sessions, used, regVars, hidx, stopPc, stops,
                   fails, lastFail, frames, cur>>

\* asyncio.sleep(10) in the ConnectionError clause returns.
Sleep10Done ==
    /\ pc = "sleep10"
    /\ waited' = waited + ConnectionErrorBackoff
    /\ last' = Step
    /\ IF AfterConnectionErrorBackoff = "continue"
       THEN LoopHead(running, att)
       ELSE IF running
            THEN pc' = "sleep5" /\ UNCHANGED <<attempts, att>>
            ELSE LoopHead(running, att)
    /\ UNCHANGED <<running, ws, transports, session, sessions, used, regVars, hidx, stopPc, stops,
                   fails, lastFail, frames, cur>>

\* ------------------------------------------------- handshake: _connect_ws
\* websockets.connect returns: the transport is stored in self._ws and the
\* bot_auth frame is sent; the task then awaits the response.
OpenOk ==
    /\ pc = "opening"
    /\ transports' = Append(transports, "open")
    /\ ws' = Len(transports) + 1
    /\ pc' = "auth_recv"
    /\ lastFail' = NoFail
    /\ waited' = 0
    /\ last' = Step
    /\ UNCHANGED <<running, session, sessions, used, regVars, hidx, stopPc, stops, attempts, fails,
                   att, frames, cur>>

\* websockets.connect raises: the TCP connection is refused
\* (ConnectionRefusedError) or the opening handshake is rejected
\* (InvalidHandshake).  self._ws keeps its previous value.
OpenFails(e) ==
    /\ pc = "opening"
    /\ Fail(e, "", att)
    /\ last' = Step
    /\ UNCHANGED <<running, ws, transports, session, sessions, used, regVars, hidx, stopPc, stops,
                   frames>>

\* AuthOutcome without the `elif ... == 'error'` branch.
AuthOutcomeNoErrorBranch(type) ==
    CASE type = "bot_auth_success" -> "success"
      [] OTHER -> "unexpected"

\* AuthOutcome with every type other than bot_auth_success raising.
AuthOutcomeStrict(type) ==
    CASE type = "bot_auth_success" -> "success"
      [] OTHER -> "rejected"

\* The branch _connect_ws takes on the type of the decoded response.
AuthOutcome(type) ==
    CASE type = "bot_auth_success" -> "success"
      [] type = "error" -> "rejected"
      [] OTHER -> "unexpected"

\* register_commands, lines 205-207: the request carries
\* 'commands': self._slash_definitions, the list as it is.
RegisterCommandsBody == slashDefinitions

\* The guard with the registration call left out of the loop.
HasDefinitionsIgnored(defs) == FALSE

\* Line 246, `if self._slash_definitions:` (and line 202 in
\* register_commands): a non-empty list.
HasDefinitions(defs) == defs # <<>>

\* Lines 246-250: after _connect_ws returned, register the commands when
\* there are definitions (the request is sent and awaited), else enter the
\* frame loop.
AfterConnect(a) ==
    IF HasDefinitions(slashDefinitions)
    THEN /\ session' = EnsureSession(session)
         /\ sessions' = SessionsAfterEnsure(session, sessions)
         /\ used' = TRUE
         /\ att' = [a EXCEPT !.regIssued = @ + 1, !.sent = RegisterCommandsBody]
         /\ pc' = "registering"
    ELSE /\ att' = [a EXCEPT !.streamed = TRUE]
         /\ pc' = "reading"
         /\ UNCHANGED <<session, sessions, used>>

\* The response to bot_auth arrives.
AuthRecv(r) ==
    /\ pc = "auth_recv"
    /\ transports[ws] = "open"
    /\ IF ~r.json
       THEN /\ Fail("JSONDecodeError", "", att)
            /\ last' = [ev |-> "auth", arg |-> "malformed", msg |-> ""]
            /\ UNCHANGED <<session, sessions, used>>
       ELSE IF AuthOutcome(r.type) = "rejected"
       THEN /\ Fail("ConnectionError", r.message, att)
            /\ last' = [ev |-> "auth", arg |-> r.type, msg |-> r.message]
            /\ UNCHANGED <<session, sessions, used>>
       ELSE /\ AfterConnect(att)
            /\ last' = [ev |-> "auth", arg |-> r.type, msg |-> r.message]
            /\ UNCHANGED <<attempts, fails, lastFail, waited, cur>>
    /\ UNCHANGED <<running, ws, transports, regVars, hidx, stopPc, stops,
                   frames>>

\* The transport is closed while the response is awaited: recv raises
\* ConnectionClosedOK when the closing handshake completed with code 1000,
\* ConnectionClosedError otherwise.
AuthClosed(clean) ==
    /\ pc = "auth_recv"
    /\ transports[ws] # "open"
    /\ Fail(IF clean THEN "ConnectionClosedOK" ELSE "ConnectionClosedError", "", att)
    /\ last' = Step
    /\ UNCHANGED <<running, ws, transports, session, sessions, used, regVars, hidx, stopPc, stops,
                   frames>>

\* Whether an outcome of the request of register_commands leaves
\* _api_request as an exception: a status >= 400 is logged and the body
\* returned; a failed request raises.
RequestRaises(o) == o = "exception"

\* The request of register_commands completes.
RegDone(o) ==
    /\ pc = "registering"
    /\ last' = [ev |-> "registered", arg |-> o, msg |-> ""]
    /\ IF RequestRaises(o)
       THEN /\ Fail("ClientError", "", att)
       ELSE /\ att' = [att EXCEPT !.streamed = TRUE]
            /\ pc' = "reading"
            /\ UNCHANGED <<attempts, fails, lastFail, waited, cur>>
    /\ UNCHANGED <<running, ws, transports, session, sessions, used, regVars, hidx, stopPc, stops,
                   frames>>

\* ------------------------------------------- frame loop and dispatcher
stopReturned == stopPc = "returned" \/ stops > 1

\* self._slash_handlers.get(cmd_name)
SlashLookup(c) == IF c \in DOMAIN slashHandlers THEN slashHandlers[c] ELSE NoHandler

\* HandlersFor with the list walked from its end.
HandlersForNewestFirst(k) ==
    IF k \in DOMAIN eventHandlers
    THEN [i \in 1..Len(eventHandlers[k]) |->
             eventHandlers[k][Len(eventHandlers[k]) + 1 - i]]
    ELSE <<>>

\* self._event_handlers.get(event_name, [])
HandlersFor(k) == IF k \in DOMAIN eventHandlers THEN eventHandlers[k] ELSE <<>>

\* Line 282: the events that take the slash-command path.
IsSlashEvent(f) == f.type = "bot_event" /\ f.event = "slash_command"

\* The slash-command path without its final return: the dispatch goes on to
\* the handlers registered for the event kind.
HandlersAfterSlashPathNoReturn(f) == HandlersFor(f.event)

\* Line 295: the slash-command path ends in an unconditional return, so no
\* handler of _event_handlers is left to run for the event.
HandlersAfterSlashPath(f) == <<>>

\* Lines 281-306: the handlers of _event_handlers the dispatch of bot_event
\* f walks.
EventHandlersOf(f) ==
    IF IsSlashEvent(f) THEN HandlersAfterSlashPath(f) ELSE HandlersFor(f.event)

\* EventData written with setdefault: an id of the payload's own is kept.
EventDataKeepsOwn(f) ==
    [f.data EXCEPT !.server_id = IF @ = "" THEN f.server_id ELSE @,
                   !.channel_id = IF @ = "" THEN f.channel_id ELSE @]

\* Lines 277-279: event_data is the envelope's data with server_id and
\* channel_id overwritten by the envelope's own.
EventData(f) == [f.data EXCEPT !.server_id = f.server_id, !.channel_id = f.channel_id]

\* SlashCommandContext with server_id and channel_id exchanged.
SlashCommandContextSwapped(ed) ==
    [command_name |-> ed.command, user |-> ed.user,
     server_id |-> ed.channel_id, channel_id |-> ed.server_id]

\* Lines 286-293: the context built from event_data.
SlashCommandContext(ed) ==
    [command_name |-> ed.command, user |-> ed.user,
     server_id |-> ed.server_id, channel_id |-> ed.channel_id]

\* Message.from_event, reduced to the ids it copies and the dict it keeps.
MessageFromEvent(ed) ==
    [server_id |-> ed.server_id, channel_id |-> ed.channel_id, raw |-> ed]

\* Lines 301-304: a message_create handler is called with the Message made
\* from event_data, a handler of any other kind with event_data itself.
HandlerArgument(f) ==
    IF f.event = "message_create" THEN MessageFromEvent(EventData(f)) ELSE EventData(f)

\* How the dispatch c of a frame fared, as seen by the next frame of the
\* connection.
Fared(c) ==
    IF c.decodeWarned THEN "malformed"
    ELSE IF c.escaped /\ IsSlashEvent(c.frame) THEN "slash_raised"
    ELSE ""

\* The dispatch record of frame f at the moment it is read.
NewDispatch(f) ==
    [NoDispatch EXCEPT !.frame = f, !.after = Fared(cur),
                       !.afterStop = (stopReturned /\ f.json)]

\* The frame loop goes on with dispatch record c, suspended at p, the
\* handler in flight being number h of its list.
FrameLoopGoesOn(c, p, h) ==
    /\ cur' = c
    /\ pc' = p
    /\ hidx' = h
    /\ att' = [att EXCEPT !.frames = @ + 1]
    /\ UNCHANGED <<attempts, fails, lastFail, waited>>

\* The frame loop with json.loads outside the inner try.
FrameDecodeErrorLeavesLoop == FALSE

\* Lines 251-255: json.loads is inside the inner try, whose first clause
\* catches json.JSONDecodeError.
FrameDecodeErrorCaught == TRUE

\* The frame loop with the dispatch started as a task of its own
\* (asyncio.create_task) instead of awaited.
DispatchSpawned(p) == p \in {"reading", "handling", "slash_handling"}

\* Lines 250-253: the frame loop takes the next frame only when it is
\* suspended in `async for`; while `await self._dispatch_event(data)` is
\* pending it is suspended inside the handler in flight.
DispatchAwaited(p) == p = "reading"

\* A frame arrives on the open transport: it is decoded and handed to
\* _dispatch_event, which runs up to the first handler it awaits.
RecvFrame(f) ==
    /\ DispatchAwaited(pc)
    /\ transports[ws] = "open"
    /\ frames < MaxFrames
    /\ frames' = frames + 1
    /\ last' = IF f.json THEN Step ELSE [ev |-> "frame", arg |-> "malformed", msg |-> ""]
    /\ IF ~f.json
       THEN IF FrameDecodeErrorCaught
            THEN FrameLoopGoesOn([NewDispatch(f) EXCEPT !.decodeWarned = TRUE],
                                 "reading", 0)
            ELSE /\ Fail("JSONDecodeError", "", [att EXCEPT !.frames = @ + 1])
                 /\ hidx' = 0
       ELSE IF IsSlashEvent(f) /\ SlashLookup(EventData(f).command) # NoHandler
       THEN FrameLoopGoesOn([NewDispatch(f) EXCEPT !.done = FALSE,
                                !.invoked = <<SlashLookup(EventData(f).command)>>,
                                !.via = "command",
                                !.ctx = SlashCommandContext(EventData(f)),
                                !.handed = Ids(SlashCommandContext(EventData(f)))],
                            "slash_handling", 0)
       ELSE IF f.type = "bot_event" /\ EventHandlersOf(f) # <<>>
       THEN FrameLoopGoesOn([NewDispatch(f) EXCEPT !.done = FALSE,
                                !.via = "event",
                                !.invoked = <<EventHandlersOf(f)[1]>>,
                                !.handed = Ids(HandlerArgument(f))],
                            "handling", 1)
       ELSE FrameLoopGoesOn(NewDispatch(f), "reading", 0)
    /\ UNCHANGED <<running, ws, transports, session, sessions, used, regVars, stopPc, stops>>

\* The frame loop finds the transport closed: a clean close ends the
\* iteration silently, any other close raises ConnectionClosedError.
StreamClosed(clean) ==
    /\ pc = "reading"
    /\ transports[ws] # "open"
    /\ Fail(IF clean THEN "EndOfStream" ELSE "ConnectionClosedError", "", att)
    /\ last' = Step
    /\ UNCHANGED <<running, ws, transports, session, sessions, used, regVars, hidx, stopPc, stops,
                   frames>>

\* Lines 299-306: the handler loop goes on to the next handler, or
\* _dispatch_event returns to the frame loop.  c is the dispatch record.
NextHandler(c) ==
    IF hidx < Len(EventHandlersOf(c.frame))
    THEN /\ hidx' = hidx + 1
         /\ cur' = [c EXCEPT !.invoked = Append(@, EventHandlersOf(c.frame)[hidx + 1]),
                             !.inCall = FALSE, !.via = "event"]
         /\ pc' = "handling"
    ELSE /\ hidx' = 0
         /\ cur' = [c EXCEPT !.done = TRUE, !.inCall = FALSE]
         /\ pc' = "reading"

\* The event handler in flight returns.
HandlerReturn ==
    /\ pc = "handling"
    /\ NextHandler([cur EXCEPT !.finished = @ + 1])
    /\ last' = Step
    /\ UNCHANGED <<running, ws, transports, session, sessions, used, regVars, stopPc, stops,
                   attempts, fails, att, lastFail, waited, frames>>

\* Line 306: logger.error('Handler error for %s: %s', event_name, e).
HandlerErrorRecord(f) == [format |-> "Handler error for %s: %s", names |-> {f.event}]

\* Line 257: logger.error('Error handling event: %s', e, exc_info=True);
\* the only argument is the exception.
FrameLoopErrorRecord(f) == [format |-> "Error handling event: %s", names |-> {}]

\* The handler loop without the try around the handler call.
HandlerExceptionPropagates == FALSE

\* Lines 300-306: the try around one handler call catches Exception.
HandlerExceptionCaught == TRUE

\* The event handler in flight raises: the error is logged and the loop
\* goes on.  (An exception that left _dispatch_event would be caught and
\* logged by the frame loop, line 256.)
HandlerRaise ==
    /\ pc = "handling"
    /\ IF HandlerExceptionCaught
       THEN NextHandler([cur EXCEPT !.finished = @ + 1,
                                    !.raised = Append(@, hidx),
                                    !.logged = Append(@, hidx),
                                    !.errlog = Append(@, HandlerErrorRecord(cur.frame))])
       ELSE /\ cur' = [cur EXCEPT !.finished = @ + 1,
                                  !.raised = Append(@, hidx),
                                  !.done = TRUE, !.escaped = TRUE, !.inCall = FALSE,
                                  !.errlog = Append(@, FrameLoopErrorRecord(cur.frame))]
            /\ hidx' = 0
            /\ pc' = "reading"
    /\ last' = Step
    /\ UNCHANGED <<running, ws, transports, session, sessions, used, regVars, stopPc, stops,
                   attempts, fails, att, lastFail, waited, frames>>

\* The slash-command handler in flight returns, or raises: `await
\* handler(ctx)` (line 294) is in no try, so the exception leaves
\* _dispatch_event and is caught and logged by the frame loop (lines 256-257).
SlashHandlerDone(raises) ==
    /\ pc = "slash_handling"
    /\ IF raises
       THEN /\ cur' = [cur EXCEPT !.done = TRUE, !.escaped = TRUE, !.inCall = FALSE,
                                  !.finished = @ + 1,
                                  !.raised = <<1>>,
                                  !.errlog = <<FrameLoopErrorRecord(cur.frame)>>]
            /\ pc' = "reading"
            /\ hidx' = 0
       ELSE NextHandler([cur EXCEPT !.finished = @ + 1])
    /\ last' = Step
    /\ UNCHANGED <<running, ws, transports, session, sessions, used, regVars, stopPc, stops,
                   attempts, fails, att, lastFail, waited, frames>>

\* The handler in flight calls an action-client method (send_message, ...):
\* _api_request obtains the session and suspends in session.request (line
\* 149) until the handler is resumed; the frame loop stays suspended in
\* `await self._dispatch_event(data)`.  (A further call that finds the
\* session it used before still open changes nothing.)
HandlerApiCall ==
    /\ pc \in {"handling", "slash_handling"}
    /\ session' = EnsureSession(session)
    /\ sessions' = SessionsAfterEnsure(session, sessions)
    /\ used' = TRUE
    /\ cur' = [cur EXCEPT !.inCall = TRUE]
    /\ UNCHANGED <<running, ws, transports, regVars, pc, hidx, stopPc, stops,
                   histVars, frames>>

\* ------------------------------------------------------------ environment
\* The server (or the network) closes the transport the client listens on.
\* Whether the close is clean is seen by the client when it next reads.
\* (What the server does with a transport the client no longer references
\* is not observable by the client and is left out.)
ServerClose ==
    /\ ws # 0
    /\ transports[ws] = "open"
    /\ transports' = [transports EXCEPT ![ws] = "closed"]
    /\ UNCHANGED <<running, ws, session, sessions, used, regVars, pc, hidx, stopPc, stops,
                   histVars, frames, cur>>

\* ------------------------------------------------------------------ stop
\* What closing a transport leaves: close() on a closed one changes nothing.
CloseTransport(ts, t) ==
    IF t # 0 /\ ts[t] = "open" THEN [ts EXCEPT ![t] = "closed"] ELSE ts

\* session.close() when there is a session and it is not closed.
CloseSession(s) == IF s = "open" THEN "closed" ELSE s

\* Whether the session handed out since its last close is still to be
\* closed once stop has run lines 326-327 on session s.
UsedAfterClose(s, u) == IF s = "open" THEN FALSE ELSE u

\* stop() without the test of self._ws.
HasTransportIgnored(w) == TRUE

\* Line 324, `if self._ws:`: self._ws is not None.
HasTransport(w) == w # 0

\* stop() is called (the previous call, if any, is over): the flag is
\* cleared; with a transport in self._ws its close is awaited, else the
\* session is closed and stop returns.  (close() called on None would raise
\* AttributeError out of stop.)
StopBegin ==
    /\ pc # "idle"
    /\ stopPc \in {"none", "returned"}
    /\ stops < MaxStops
    /\ stops' = stops + 1
    /\ running' = FALSE
    /\ IF HasTransport(ws)
       THEN IF ws = 0
            THEN stopPc' = "raised" /\ UNCHANGED <<transports, session, used>>
            ELSE /\ transports' = CloseTransport(transports, ws)
                 /\ stopPc' = "closing_ws"
                 /\ UNCHANGED <<session, used>>
       ELSE /\ stopPc' = "returned"
            /\ session' = CloseSession(session)
            /\ used' = UsedAfterClose(session, used)
            /\ UNCHANGED transports
    /\ UNCHANGED <<ws, sessions, regVars, pc, hidx, histVars, frames, cur>>

\* The close of the transport has completed: the session is closed and
\* stop returns.
StopFinish ==
    /\ stopPc = "closing_ws"
    /\ session' = CloseSession(session)
    /\ used' = UsedAfterClose(session, used)
    /\ stopPc' = "returned"
    /\ UNCHANGED <<running, ws, transports, sessions, regVars, pc, hidx, stops,
                   histVars, frames, cur>>

\* --------------------------------------------------------- specification
Next ==
    \/ \E k \in Kinds : AddEventHandler(k)
    \/ \E n \in Names : SlashCommand(n)
    \/ Start
    \/ Sleep5Done
    \/ Sleep10Done
    \/ OpenOk
    \/ \E e \in {"ConnectionRefusedError", "InvalidHandshake"} : OpenFails(e)
    \/ \E r \in AuthResponses : AuthRecv(r)
    \/ \E clean \in BOOLEAN : AuthClosed(clean)
    \/ \E o \in {"ok", "http_error", "exception"} : RegDone(o)
    \/ \E f \in Frames : RecvFrame(f)
    \/ \E clean \in BOOLEAN : StreamClosed(clean)
    \/ HandlerReturn
    \/ HandlerRaise
    \/ \E b \in BOOLEAN : SlashHandlerDone(b)
    \/ HandlerApiCall
    \/ ServerClose
    \/ StopBegin
    \/ StopFinish

Spec == Init /\ [][Next]_vars

\* ------------------------------------------------------------ type check
TypeOK ==
    /\ running \in BOOLEAN
    /\ ws \in 0..Len(transports)
    /\ \A t \in DOMAIN transports : transports[t] \in {"open", "closed"}
    /\ session \in {"none", "open", "closed"}
    /\ pc \in {"idle", "opening", "auth_recv", "registering", "reading",
               "handling", "slash_handling", "sleep5", "sleep10", "done"}
    /\ stopPc \in {"none", "closing_ws", "returned"}
    /\ stops \in 0..MaxStops
    /\ sessions \in 0..(MaxStops + 1)
    /\ used \in BOOLEAN
    /\ regs \in 0..MaxRegs
    /\ attempts \in 0..MaxAttempts
    /\ fails \in 0..MaxAttempts
    /\ frames \in 0..MaxFrames
    /\ lastFail.exc \in Endings \cup {"none"}
    /\ lastFail.msg \in Messages \cup {""}
    /\ waited \in {0, GeneralBackoff, ConnectionErrorBackoff}
    /\ DOMAIN slashHandlers \subseteq Names
    /\ hidx \in 0..MaxRegs

\* ================================================================ claims
InAttempt == {"opening", "auth_recv", "registering", "reading", "handling",
              "slash_handling"}

\* C1: for a bot_event of a non-slash kind, every registered handler of the
\* kind is invoked, in order, whichever of them raise; no exception leaves
\* _dispatch_event; and exactly one error is logged per handler that raised.
C1_HandlerIsolation ==
    LET f == cur.frame
        hs == HandlersFor(f.event)
    IN  (f.type = "bot_event" /\ f.event # "slash_command") =>
            /\ ~cur.escaped
            /\ cur.logged = cur.raised
            /\ \A i, j \in DOMAIN cur.logged : i < j => cur.logged[i] < cur.logged[j]
            /\ cur.done => cur.invoked = hs
            /\ ~cur.done => pc = "handling" /\ cur.invoked = SubSeq(hs, 1, hidx)

\* C1 witness: a dispatch to two or more handlers has finished, the first
\* handler raised and the last one was still invoked.
C1_Witness ==
    /\ cur.done
    /\ cur.frame.type = "bot_event"
    /\ cur.frame.event = "message_create"
    /\ Len(HandlersFor("message_create")) >= 2
    /\ cur.raised = <<1>>
    /\ cur.logged = <<1>>
    /\ cur.invoked = HandlersFor("message_create")

\* C2: the supervisor loop has terminated only if the running flag has been
\* cleared by stop.
C2_LoopEndsOnlyOnStop == pc = "done" => ~running /\ stops > 0

\* C2 witness: the loop has ended after two attempts ended in failure.
C2_Witness == pc = "done" /\ fails >= 2 /\ ~running

\* C3 (as claimed): once stop has returned, the client holds no open
\* transport and no frame is dispatched any more.
C3_StopLeavesNothingOpen ==
    stopReturned => /\ (ws = 0 \/ transports[ws] # "open")
                    /\ ~cur.afterStop

\* C4: an authentication response of type error ends the attempt: no
\* registration request, no frame read, the frame loop not entered, and the
\* failure logged carries the message of the response.
C4_AuthErrorEndsAttempt ==
    (last.ev = "auth" /\ last.arg = "error") =>
        /\ pc = "sleep10"
        /\ att.regIssued = 0
        /\ ~att.streamed
        /\ att.frames = 0
        /\ lastFail = [exc |-> "ConnectionError", msg |-> last.msg]

\* C4 witness: the server answered error "bad token" to a client that has
\* commands to register.
C4_Witness ==
    /\ last.ev = "auth" /\ last.arg = "error" /\ last.msg = "bad token"
    /\ slashDefinitions # <<>>
    /\ lastFail.msg = "bad token"
    /\ pc = "sleep10"

\* C5 (as claimed): when the attempt that follows an authentication
\* rejection begins, the transport of the rejected attempt is closed.
C5_RejectedTransportClosed ==
    (pc = "opening" /\ lastFail.exc = "ConnectionError") => transports[ws] # "open"

\* C6 (as claimed): whatever the outcome of the registration request, the
\* attempt goes on to the frame loop.
C6_RegistrationNeverEndsAttempt ==
    last.ev = "registered" => att.streamed /\ pc = "reading"

\* C7: a clean close seen while the flag is set is followed by one wait of
\* exactly 5 and then one new attempt; every attempt that ends is followed
\* by at most one new attempt, so k clean closes give k reconnections.
C7_CleanCloseBackoff ==
    /\ lastFail.exc \in CleanEndings =>
          /\ pc \in {"sleep5", "opening", "done"}
          /\ pc = "sleep5" => waited = 0
          /\ pc = "opening" => waited = 5
          /\ pc = "done" => ~running
    /\ pc \in InAttempt => attempts = fails + 1
    /\ pc \notin InAttempt => attempts = fails

\* C7 witness: the third attempt begins after the second clean close.
C7_Witness ==
    /\ pc = "opening" /\ attempts = 3 /\ fails = 2
    /\ lastFail.exc = "EndOfStream" /\ waited = 5

\* C8: the attempt after an authentication failure begins after a wait of
\* exactly 10.
C8_AuthFailureBackoff ==
    (pc = "opening" /\ lastFail.exc = "ConnectionError") => waited = 10

\* C8 witness: an attempt begins after an authentication rejection.
C8_Witness == pc = "opening" /\ lastFail.exc = "ConnectionError" /\ waited = 10

\* C9 (as claimed): a failure that is neither a clean close nor an
\* authentication rejection is followed by a wait of 5 before the retry.
C9_OtherFailureBackoff ==
    (pc = "opening" /\ lastFail.exc \notin CleanEndings \cup {"ConnectionError", "none"})
        => waited = 5

\* C9 (amended): a failure that is neither a clean close nor a
\* ConnectionError (an authentication rejection, a refused transport open)
\* is followed by a wait of 5 before the retry; a refused transport open is
\* followed by a wait of 10.
C9_OtherFailureBackoffAmended ==
    /\ (pc = "opening" /\ lastFail.exc \notin
            CleanEndings \cup {"ConnectionError", "ConnectionRefusedError", "none"})
        => waited = 5
    /\ (pc = "opening" /\ lastFail.exc = "ConnectionRefusedError") => waited = 10

\* C9 witness: an attempt begins after a non-JSON authentication response.
C9_Witness == pc = "opening" /\ lastFail.exc = "JSONDecodeError" /\ waited = 5

\* C10: no connection attempt begins while the running flag is clear.
C10_NoAttemptAfterStop == [][attempts' > attempts => running']_vars

\* C10 witness: the flag was cleared before the wait after an authentication
\* failure was over, and the loop ended without a new attempt.
C10_Witness ==
    /\ pc = "done" /\ ~running
    /\ lastFail.exc = "ConnectionError" /\ waited = 10
    /\ attempts < MaxAttempts

\* C11: a frame that is not JSON, read from the stream, is skipped: no
\* handler is invoked for it, the attempt goes on with the frame loop waiting
\* for the next frame on the same transport, which the client has not closed;
\* and a frame read after a skipped one belongs to the same connection.
C11_MalformedFrameSkipped ==
    /\ (last.ev = "frame" /\ last.arg = "malformed") =>
          /\ pc = "reading"
          /\ attempts = fails + 1
          /\ att.streamed
          /\ cur.decodeWarned /\ ~cur.frame.json
          /\ cur.invoked = <<>> /\ cur.done /\ ~cur.escaped
          /\ ws = Len(transports)
    /\ cur.after = "malformed" => att.frames >= 2 /\ att.streamed

\* C11 witness: the frame read after a skipped one has been dispatched to
\* its handler, on a transport that is still open.
C11_Witness ==
    /\ cur.after = "malformed"
    /\ cur.frame.event = "message_create"
    /\ cur.invoked # <<>> /\ cur.done
    /\ transports[ws] = "open"
    /\ attempts = 1

\* C12 (as claimed): an exception raised by a slash-command handler is
\* caught and logged in a record that carries the command name, the attempt
\* goes on, and a frame read after it belongs to the same connection.
C12_SlashHandlerErrorLoggedWithName ==
    /\ (IsSlashEvent(cur.frame) /\ cur.raised # <<>>) =>
          /\ pc = "reading"
          /\ attempts = fails + 1
          /\ Len(cur.errlog) = 1
          /\ \E i \in DOMAIN cur.errlog : cur.frame.data.command \in cur.errlog[i].names
    /\ cur.after = "slash_raised" => att.frames >= 2 /\ att.streamed

\* C13: a slash_command event whose data.command is registered invokes the
\* handler stored under that name, once, with a context made of the
\* command name and user of the payload and the server_id and channel_id of
\* the envelope; when the name is not registered no handler is invoked,
\* nothing is raised or logged, and the frame loop goes on.
C13_SlashDispatch ==
    LET f == cur.frame
        h == SlashLookup(f.data.command)
    IN  IsSlashEvent(f) =>
            /\ attempts = fails + 1
            /\ IF h # NoHandler
               THEN /\ cur.invoked = <<h>>
                    /\ cur.ctx = [command_name |-> f.data.command,
                                  user |-> f.data.user,
                                  server_id |-> f.server_id,
                                  channel_id |-> f.channel_id]
                    /\ pc = "slash_handling" <=> ~cur.done
               ELSE /\ cur.invoked = <<>>
                    /\ cur.ctx = NoContext
                    /\ cur.done /\ ~cur.escaped
                    /\ cur.raised = <<>> /\ cur.errlog = <<>>
                    /\ pc = "reading"

\* C13 witness: the handler registered last for "ping" has run once for an
\* event sent by alice on server s1, channel c1.
C13_Witness ==
    /\ IsSlashEvent(cur.frame)
    /\ cur.done
    /\ Len(slashDefinitions) = 2
    /\ cur.invoked = <<SlashLookup("ping")>>
    /\ cur.invoked = <<2>>
    /\ cur.ctx = [command_name |-> "ping", user |-> "alice",
                  server_id |-> "s1", channel_id |-> "c1"]

\* C14 (as claimed): the list of definitions sent in a registration request
\* holds at most one definition per command name, and that one is the
\* definition given with the registration whose handler is stored under the
\* name (the last one).
C14_OneDefinitionPerName ==
    LET d == att.sent
    IN  /\ \A i, j \in DOMAIN d : i # j => d[i].name # d[j].name
        /\ \A i \in DOMAIN d : d[i].description = SlashLookup(d[i].name)

\* C15: the names with a handler are the names registered, and the handler
\* stored under a name is the one given with the last registration of it;
\* a registration made under a name already taken is accepted like any other.
C15_LastHandlerWins ==
    /\ DOMAIN slashHandlers = {slashDefinitions[i].name : i \in DOMAIN slashDefinitions}
    /\ \A n \in DOMAIN slashHandlers :
          LET lastReg == CHOOSE i \in RegistrationsOf(n) :
                            \A j \in RegistrationsOf(n) : j <= i
          IN  slashHandlers[n] = slashDefinitions[lastReg].description
    /\ Len(slashDefinitions) + Len(eventHandlers["message_create"])
          + Len(eventHandlers["slash_command"]) = regs

\* C15 witness: "ping" was registered twice and the bot runs with the
\* second handler.
C15_Witness ==
    /\ Cardinality(RegistrationsOf("ping")) = 2
    /\ SlashLookup("ping") = 2
    /\ pc = "reading"

\* C16: an attempt issues at most one registration request; none before the
\* authentication response is accepted; once the response is accepted, and
\* from then on (in particular when the frame loop is entered and whenever a
\* frame has been read), exactly one when there are definitions and none
\* when there are not; the request carries the definition list.
C16_OneRegistrationPerConnection ==
    LET due == IF slashDefinitions # <<>> THEN 1 ELSE 0
    IN  /\ att.regIssued \in {0, 1}
        /\ pc \in {"opening", "auth_recv"} => att.regIssued = 0
        /\ (last.ev = "auth" /\ last.arg \notin {"error", "malformed"}) =>
               att.regIssued = due
        /\ att.streamed => att.regIssued = due
        /\ att.frames > 0 => att.streamed
        /\ pc = "registering" => att.regIssued = 1 /\ ~att.streamed /\ att.frames = 0
        /\ att.regIssued = 1 => att.sent = slashDefinitions /\ att.sent # <<>>

\* C16 witness: the second connection of a bot with a command has
\* registered once and read a frame.
C16_Witness ==
    /\ attempts = 2
    /\ att.regIssued = 1
    /\ att.frames >= 1
    /\ slashDefinitions # <<>>

\* What stop() is to leave: the flag clear, no open transport in self._ws,
\* no open request session.
Stopped ==
    /\ ~running
    /\ ws = 0 \/ transports[ws] # "open"
    /\ session # "open"

\* C17: no call of stop raises; a call of stop made after an earlier call
\* returned leaves the flag clear and the transport it finds in self._ws
\* closed, has the request session closed when it returns, and, made in the
\* state stop is to leave, changes none of the flag, the transport and the
\* session.
C17_StopTwice ==
    /\ [](stopPc # "raised")
    /\ [][(stops >= 1 /\ stops' = stops + 1) =>
              /\ ~running'
              /\ ws' = ws
              /\ ws' = 0 \/ transports'[ws'] # "open"
              /\ stopPc' = "returned" => session' # "open"
              /\ Stopped => UNCHANGED <<running, ws, transports, session>>]_vars
    /\ [][(stops >= 2 /\ stopPc = "closing_ws" /\ stopPc' = "returned") =>
              /\ ~running'
              /\ session' # "open"
              /\ UNCHANGED <<ws, transports>>
              /\ Stopped => UNCHANGED <<running, ws, transports, session>>]_vars

\* C17 witness: stop was called twice on a bot that had a transport and a
\* request session, both calls have returned, and everything is closed.
C17_Witness ==
    /\ stops = 2 /\ stopPc = "returned"
    /\ ws # 0 /\ session = "closed"
    /\ Stopped
    /\ pc = "done"

\* C18: the handlers of a kind are kept in the order of their registration;
\* for an event of the kind the handlers invoked so far are the first ones of
\* that list, in its order; all of them when the dispatch is over; and every
\* handler invoked but the last has returned or raised, the last one too
\* when the dispatch is over: a handler starts only when the one before it
\* has finished.
C18_RegistrationOrder ==
    LET f == cur.frame
    IN  (f.type = "bot_event" /\ ~IsSlashEvent(f) /\ f.event \in DOMAIN eventHandlers) =>
            LET hs == eventHandlers[f.event]
                n == Len(cur.invoked)
            IN  /\ \A i, j \in DOMAIN hs : i < j => hs[i] < hs[j]
                /\ n <= Len(hs)
                /\ cur.invoked = SubSeq(hs, 1, n)
                /\ cur.done => n = Len(hs) /\ cur.finished = n
                /\ ~cur.done => n >= 1 /\ cur.finished = n - 1 /\ pc = "handling"

\* C18 witness: two handlers of message_create have run for one event, the
\* first registered first, and neither raised.
C18_Witness ==
    /\ cur.frame.event = "message_create"
    /\ cur.done
    /\ cur.invoked = <<1, 2>>
    /\ cur.finished = 2
    /\ cur.raised = <<>>

\* C19: after an authentication response of any type but error (that is
\* bot_auth_success, or a type the client does not know) the attempt goes
\* on, in the same way whatever the type: with definitions the registration
\* request is issued and awaited, without them the frame loop is entered.
C19_UnexpectedAuthIsSuccess ==
    (last.ev = "auth" /\ last.arg \notin {"error", "malformed"}) =>
        /\ attempts = fails + 1
        /\ lastFail = NoFail
        /\ IF slashDefinitions # <<>>
           THEN pc = "registering" /\ att.regIssued = 1 /\ ~att.streamed
           ELSE pc = "reading" /\ att.regIssued = 0 /\ att.streamed

\* C19 witness: the server answered auth_pending and the client went on to
\* register its commands.
C19_Witness ==
    /\ last.ev = "auth" /\ last.arg = "auth_pending"
    /\ pc = "registering"
    /\ att.regIssued = 1
    /\ transports[ws] = "open"

\* C20: there is no request session until a call creates the first one;
\* whenever a call has been made since the latest close (or since
\* construction) the session is open, so a call made after a close, after
\* stop included, leaves an open session; a session is created only by a
\* call that finds none or finds it closed, and then exactly one is, so
\* calls with no close between them use one session; and only stop closes
\* a session.
C20_SessionLifecycle ==
    /\ [](/\ session = "none" <=> sessions = 0
          /\ used => session = "open"
          /\ sessions = 0 => ~used /\ att.regIssued = 0
          /\ stops = 0 => sessions <= 1
          /\ sessions <= stops + 1)
    /\ [][/\ sessions' # sessions =>
                /\ session # "open" /\ session' = "open"
                /\ sessions' = sessions + 1
                /\ used'
          /\ (used' /\ session = "open") => sessions' = sessions /\ session' = "open"
          /\ att'.regIssued > att.regIssued => used'
          /\ session' # session =>
                \/ sessions' = sessions + 1
                \/ session = "open" /\ session' = "closed" /\ stops' > 0 /\ ~running']_vars

\* C20 witness: the registration request created the first session, stop
\* closed it and returned, and a call of the handler in flight created the
\* second one.
C20_Witness ==
    /\ sessions = 2 /\ session = "open" /\ used
    /\ stopPc = "returned"
    /\ att.regIssued = 1
    /\ pc \in {"handling", "slash_handling"}

\* C21: whenever handlers are invoked for a bot_event, the argument they are
\* called with (the Message, the event data, or the command context) has the
\* server_id and channel_id of the envelope, the empty string standing for
\* an id the envelope lacks, whatever the payload had under those keys.
C21_EnvelopeIdsInjected ==
    (cur.frame.type = "bot_event" /\ cur.invoked # <<>>) =>
        cur.handed = [server_id |-> cur.frame.server_id,
                      channel_id |-> cur.frame.channel_id]

\* C21 witness: a message_create handler ran for an envelope without ids
\* whose payload had ids of its own, and was handed empty ids.
C21_Witness ==
    /\ cur.frame.event = "message_create"
    /\ cur.frame.server_id = "" /\ cur.frame.data.server_id = "s9"
    /\ cur.frame.channel_id = "" /\ cur.frame.data.channel_id = "c9"
    /\ cur.invoked # <<>> /\ cur.done
    /\ cur.handed = NoIds

\* The transports opened by the client that are still open.
OpenTransports == {t \in DOMAIN transports : transports[t] = "open"}

\* C22 (as claimed): at every moment at most one of the transports the
\* client opened is open.
C22_AtMostOneOpenTransport == Cardinality(OpenTransports) <= 1


\* The handler calls of the frame in hand that have started and neither
\* returned nor raised.
InFlight == Len(cur.invoked) - cur.finished

\* C23: frames of one connection are dispatched one at a time in arrival
\* order.  At most one handler is in flight, and one is in flight exactly
\* while _dispatch_event has not returned; a step that reads a frame is taken
\* only when every handler invoked for the frame before it has returned or
\* raised, hence never while a handler is suspended in an action-client
\* call; and a handler that starts belongs to the frame read last.
C23_OneFrameAtATime ==
    /\ [](/\ InFlight = (IF cur.done THEN 0 ELSE 1)
          /\ (pc \in {"handling", "slash_handling"}) = ~cur.done
          /\ (cur.inCall => ~cur.done))
    /\ [][frames' # frames =>
              /\ frames' = frames + 1
              /\ pc = "reading" /\ cur.done /\ ~cur.inCall /\ InFlight = 0]_vars
    /\ [][(cur'.invoked # cur.invoked /\ cur'.invoked # <<>>) =>
              \/ frames' = frames + 1 /\ Len(cur'.invoked) = 1
              \/ /\ frames' = frames /\ cur'.frame = cur.frame
                 /\ cur'.finished = Len(cur.invoked)
                 /\ Len(cur'.invoked) = Len(cur.invoked) + 1]_vars

\* C23 witness: the first of two handlers of a frame is suspended in an
\* action-client call while the transport is open and the server has more
\* frames to send.
C23_Witness ==
    /\ pc = "handling" /\ cur.inCall /\ hidx = 1
    /\ Len(HandlersFor(cur.frame.event)) = 2
    /\ transports[ws] = "open" /\ stops = 0
    /\ frames < MaxFrames


\* C24: a bot_event of kind slash_command is never delivered to the
\* handlers registered through the generic event registration for the kind
\* "slash_command".  The dispatch of such an event never walks
\* _event_handlers; it invokes at most one handler, the one registered for
\* the command name in _slash_handlers, called with the context of that
\* command, and none at all when the name is not registered.
C24_SlashEventSkipsGenericHandlers ==
    IsSlashEvent(cur.frame) =>
        /\ cur.via # "event"
        /\ pc # "handling" /\ hidx = 0
        /\ Len(cur.invoked) <= 1
        /\ cur.invoked # <<>> =>
               /\ cur.via = "command"
               /\ cur.frame.data.command \in DOMAIN slashHandlers
               /\ cur.ctx.command_name = cur.frame.data.command
        /\ cur.frame.data.command \notin DOMAIN slashHandlers => cur.invoked = <<>>

\* C24 witness: with a handler registered for the kind "slash_command"
\* through the generic registration, a slash_command event for a registered
\* command has been dispatched to the end and only the command handler was
\* invoked.
C24_Witness ==
    /\ HandlersFor("slash_command") # <<>>
    /\ IsSlashEvent(cur.frame)
    /\ cur.frame.data.command \in DOMAIN slashHandlers
    /\ cur.done /\ pc = "reading"
    /\ cur.via = "command" /\ cur.invoked = <<1>> /\ cur.finished = 1

====
